---- MODULE Spec2Model ----
(***************************************************************************)
(* A model of pytorch_lightning's EarlyStopping callback                   *)
(* (callbacks/early_stopping.py) and CheckpointConnector                   *)
(* (trainer/connectors/checkpoint_connector.py).                           *)
(*                                                                         *)
(* The module holds four specifications over disjoint groups of variables: *)
(*   SpecES      one process: the EarlyStopping hooks driven by the        *)
(*               training loop, with checkpoint save and resume            *)
(*   SpecDDP     NumProcs processes running the stopping check, joined by  *)
(*               the stop-decision collective                              *)
(*   SpecRestore dump_checkpoint / restore_training_state                  *)
(*   SpecHpc     the checkpoint folder: save_checkpoint, hpc_save,         *)
(*               restore_hpc_weights_if_needed                             *)
(* Each specification leaves the other groups' variables at their initial  *)
(* values.                                                                 *)
(***************************************************************************)
EXTENDS Integers, Sequences, FiniteSets, TLC

\* ------------------------------------------------------------------ bounds
\* Metric values are the integers 1..MaxValue.
MaxValue == 3
\* Configured patience ranges over 0..MaxPatience.
MaxPatience == 2
\* Configured (unsigned) min_delta ranges over 0..MaxDelta.
MaxDelta == 1
\* The training loop runs epochs 0..MaxEpoch.
MaxEpoch == 3
\* A run is resumed from a checkpoint at most MaxResumes times.
MaxResumes == 1
\* The distributed run has processes 1..NumProcs, each running evaluation
\* cycles 0..MaxCycle with a monitor of patience RankPatience.
NumProcs == 2
MaxCycle == 2
RankPatience == 2
\* A trainer has 0..MaxOpt optimizers and 0..MaxOpt schedulers, and takes at
\* most MaxStep optimizer steps.
MaxOpt == 2
MaxStep == 3
\* The processes run at most MaxSaves save operations between them.
MaxSaves == 2
\* A callback's hooks are called at most MaxCalls times.
MaxCalls == 3
\* A trainer has at most MaxBatches training batches in an epoch.
MaxBatches == 5

Values == 1..MaxValue

\* Python's None.
None == "None"

\* ------------------------------------------------- extended real numbers
\* A score is <<k, v>>: k = 1 is +infinity, k = -1 is -infinity, k = 0 the
\* finite value v.
Fin(v) == <<0, v>>
torch_inf == <<1, 0>>
NegInf == <<-1, 0>>

torch_lt(a, b) == a[1] < b[1] \/ (a[1] = 0 /\ b[1] = 0 /\ a[2] < b[2])
torch_gt(a, b) == torch_lt(b, a)

mode_dict == ("min" :> "lt") @@ ("max" :> "gt")

ApplyOp(op, a, b) == IF op = "lt" THEN torch_lt(a, b) ELSE torch_gt(a, b)

\* ------------------------------------------------------------ EarlyStopping
\* es            the EarlyStopping callback's fields
\* trainer       the trainer fields the callback reads and writes
\* pc            the training loop's position
\* error         the exception that ended the run, or None
\* stop_signals  how often lines 201-202 ran in this run (history)
\* resumes       how often the run was resumed from a checkpoint (history)
\* saved         the last checkpoint taken (with the monitor it was taken of)
\* configured    the patience this run's monitor was constructed with
\* validated     whether a validation pass ran in the current epoch (history)
VARIABLES es, trainer, pc, error, stop_signals, resumes, saved, configured, validated

esVars == <<es, trainer, pc, error, stop_signals, resumes, saved, configured, validated>>

\* ranks         the processes of the distributed run
VARIABLES ranks

ddpVars == <<ranks>>

\* rt            the trainer fields the CheckpointConnector reads and writes
\* record        the checkpoint record last dumped (and handed to a restore)
\* weights_only  dump_checkpoint's argument when record was dumped
\* raised        the exception the last restore_training_state ended with
\* rpc           the position of the run that dumps and restores
\* model         the LightningModule of the run: its weights, the
\*               on_load_checkpoint hooks that ran, its device, the amp scaler
\* warned        whether the last restore warned of a mid-epoch checkpoint
VARIABLES rt, record, weights_only, raised, rpc, model, warned

restoreVars == <<rt, record, weights_only, raised, rpc, model, warned>>

\* folder        the folder trainer.weights_save_path: whether it exists and
\*               the files in it (name -> content)
\* savers        the processes that save: position, destination, saves done
\* writes        the atomic_save calls made so far, as <<rank, path>> (history)
\* resume        what restore_hpc_weights_if_needed did
\* lastsave      the latest save: its record, what it wrote, what it raised
VARIABLES folder, savers, writes, resume, lastsave

hpcVars == <<folder, savers, writes, resume, lastsave>>

\* cb            an EarlyStopping callback whose hooks a trainer calls in any
\*               order: its configuration, the callback, the trainer as the
\*               last hook saw and left it, the last hook and its outcome,
\*               the values of the monitored key the hooks were given (history)
VARIABLES cb

cbVars == <<cb>>

vars == <<esVars, ddpVars, restoreVars, hpcVars, cbVars>>

monitor_op(self) == mode_dict[self.mode]

EarlyStoppingInit(monitor, min_delta, patience, mode, strict) ==
    LET mode1 == IF mode \notin DOMAIN mode_dict THEN "auto" ELSE mode
        mode2 == IF mode1 = "auto"
                 THEN (IF monitor = "acc" THEN "max" ELSE "min")
                 ELSE mode1
    IN  [monitor               |-> monitor,
         patience              |-> patience,
         strict                |-> strict,
         min_delta             |-> min_delta * (IF mode_dict[mode2] = "gt" THEN 1 ELSE -1),
         wait_count            |-> 0,
         stopped_epoch         |-> 0,
         mode                  |-> mode2,
         based_on_eval_results |-> FALSE,
         best_score            |-> IF mode_dict[mode2] = "lt" THEN torch_inf ELSE NegInf]

\* logs.get(key) is not None: a metrics snapshot is a function from the keys
\* it holds to their values.
HasMetric(logs, key) == key \in DOMAIN logs

validate_condition_metric_Lenient(self, logs) ==
    IF ~HasMetric(logs, self.monitor) THEN "False" ELSE "True"

\* The result is "RuntimeError" (strict, key absent), "False" or "True".
validate_condition_metric(self, logs) ==
    IF ~HasMetric(logs, self.monitor)
    THEN (IF self.strict THEN "RuntimeError" ELSE "False")
    ELSE "True"

on_save_checkpoint(self) ==
    [wait_count    |-> self.wait_count,
     stopped_epoch |-> self.stopped_epoch,
     best_score    |-> self.best_score,
     patience      |-> self.patience]

on_load_checkpoint_KeepsPatience(self, checkpointed_state) ==
    [self EXCEPT !.wait_count    = checkpointed_state.wait_count,
                 !.stopped_epoch = checkpointed_state.stopped_epoch,
                 !.best_score    = checkpointed_state.best_score]

on_load_checkpoint(self, checkpointed_state) ==
    [self EXCEPT !.wait_count    = checkpointed_state.wait_count,
                 !.stopped_epoch = checkpointed_state.stopped_epoch,
                 !.best_score    = checkpointed_state.best_score,
                 !.patience      = checkpointed_state.patience]

Improved_Always(self, value) == TRUE

Improved_NoDelta(self, value) ==
    ApplyOp(monitor_op(self), Fin(value), self.best_score)

\* Line 193: the value, shifted by the signed min_delta, beats best_score.
Improved(self, value) ==
    ApplyOp(monitor_op(self), Fin(value - self.min_delta), self.best_score)

\* Line 198: the patience is used up.
ShouldStop_Late(self, waited) == waited > self.patience

ShouldStop(self, waited) == waited >= self.patience

\* Lines 197-202 when the patience is used up: the stop signal.
SignalStop_NextEpoch(self, t, waited) ==
    [es |-> [self EXCEPT !.wait_count = waited,
                         !.stopped_epoch = t.current_epoch + 1],
     trainer |-> [t EXCEPT !.should_stop = TRUE],
     outcome |-> "reduce", signalled |-> TRUE]

SignalStop(self, t, waited) ==
    [es |-> [self EXCEPT !.wait_count = waited,
                         !.stopped_epoch = t.current_epoch],
     trainer |-> [t EXCEPT !.should_stop = TRUE],
     outcome |-> "reduce", signalled |-> TRUE]

\* Lines 179-180: the monitored key is absent and strict is false.
MissingMetric_Counts(self, t) ==
    [es |-> [self EXCEPT !.wait_count = @ + 1], trainer |-> t,
     outcome |-> "return", signalled |-> FALSE]

MissingMetric(self, t) ==
    [es |-> self, trainer |-> t, outcome |-> "return", signalled |-> FALSE]

\* Lines 177-202 of _run_early_stopping_check: everything before the
\* collective.  outcome is "raise" (strict and the key is absent), "return"
\* (the short circuit) or "reduce" (the check goes on to the collective,
\* and is "checked" once the collective has returned); signalled tells
\* whether lines 201-202 ran.
CheckLocal(self, t) ==
    LET logs    == t.callback_metrics
        valid   == validate_condition_metric(self, logs)
        current == logs[self.monitor]
        waited  == self.wait_count + 1
    IN  IF valid = "RuntimeError"
        THEN [es |-> self, trainer |-> t, outcome |-> "raise", signalled |-> FALSE]
        ELSE IF valid = "False"
        THEN MissingMetric(self, t)
        ELSE IF Improved(self, current)
        THEN [es |-> [self EXCEPT !.best_score = Fin(current), !.wait_count = 0],
              trainer |-> t, outcome |-> "reduce", signalled |-> FALSE]
        ELSE IF ShouldStop(self, waited)
        THEN SignalStop(self, t, waited)
        ELSE [es |-> [self EXCEPT !.wait_count = waited],
              trainer |-> t, outcome |-> "reduce", signalled |-> FALSE]

\* trainer.accelerator_backend.early_stopping_should_stop: the collective
\* reduction of the processes' trainer.should_stop flags (logical OR).
early_stopping_should_stop(flags) == \E p \in DOMAIN flags : flags[p]

\* Lines 205-206: the reduced decision is stored in trainer.should_stop.
StoreReduced_KeepsLocal(t, should_stop) == t

StoreReduced(t, should_stop) == [t EXCEPT !.should_stop = should_stop]

\* _run_early_stopping_check in a single-process run (the collective reduces
\* over the one process).
run_early_stopping_check(self, t) ==
    LET r == CheckLocal(self, t)
    IN  IF r.outcome = "reduce"
        THEN [r EXCEPT !.trainer = StoreReduced(r.trainer,
                           early_stopping_should_stop(<<r.trainer.should_stop>>)),
                       !.outcome = "checked"]
        ELSE r

Unchanged(self, t) == [es |-> self, trainer |-> t, outcome |-> "return", signalled |-> FALSE]

on_validation_end_InSanityCheck(self, t) == run_early_stopping_check(self, t)

on_validation_end(self, t) ==
    IF t.running_sanity_check
    THEN Unchanged(self, t)
    ELSE run_early_stopping_check(self, t)

on_validation_epoch_end(self, t) ==
    IF t.running_sanity_check
    THEN Unchanged(self, t)
    ELSE LET valid == validate_condition_metric(self, t.callback_metrics)
         IN  IF valid = "RuntimeError"
             THEN [es |-> self, trainer |-> t, outcome |-> "raise", signalled |-> FALSE]
             ELSE IF valid = "True"
             THEN Unchanged([self EXCEPT !.based_on_eval_results = TRUE], t)
             ELSE Unchanged(self, t)

on_train_epoch_end_Always(self, t) ==
    IF HasMetric(t.callback_metrics, self.monitor)
    THEN run_early_stopping_check(self, t)
    ELSE Unchanged(self, t)

on_train_epoch_end(self, t) ==
    IF self.based_on_eval_results
    THEN Unchanged(self, t)
    ELSE IF HasMetric(t.callback_metrics, self.monitor)
    THEN run_early_stopping_check(self, t)
    ELSE Unchanged(self, t)

\* ------------------------------------------- the training loop (one process)
\* The metrics snapshots the loop can hold: the training loss is always
\* logged, the monitored key may be absent.
MonitorKey == "val_loss"
LogsSet == {"loss" :> 1} \cup {("loss" :> 1) @@ (MonitorKey :> v) : v \in Values}

NoCkpt == [epoch |-> -1]

\* The min_delta the monitor was configured with (line 105 stores it signed).
ConfiguredDelta(self) == IF self.min_delta < 0 THEN -self.min_delta ELSE self.min_delta

TrainerInit ==
    [current_epoch        |-> 0,
     should_stop          |-> FALSE,
     running_sanity_check |-> FALSE,
     callback_metrics     |-> ("loss" :> 1)]

ESInit ==
    /\ \E p \in 0..MaxPatience, d \in 0..MaxDelta, m \in {"min", "max"}, s \in BOOLEAN :
           /\ es = EarlyStoppingInit(MonitorKey, d, p, m, s)
           /\ configured = p
    /\ trainer = TrainerInit
    /\ pc = "fit_start"
    /\ error = None
    /\ stop_signals = 0
    /\ resumes = 0
    /\ saved = NoCkpt
    /\ validated = FALSE

\* A hook ran: its result r is stored; an exception ends the run.
AfterHook(r, next_pc) ==
    /\ es' = r.es
    /\ trainer' = r.trainer
    /\ stop_signals' = stop_signals + (IF r.signalled THEN 1 ELSE 0)
    /\ IF r.outcome = "raise"
       THEN pc' = "crashed" /\ error' = "RuntimeError"
       ELSE pc' = next_pc /\ error' = error
    /\ UNCHANGED <<resumes, saved, configured, validated, ddpVars, restoreVars, hpcVars, cbVars>>

\* The sanity validation pass before the first epoch.
StartSanityCheck ==
    /\ pc = "fit_start"
    /\ \E logs \in LogsSet :
           trainer' = [trainer EXCEPT !.running_sanity_check = TRUE,
                                      !.callback_metrics = logs]
    /\ pc' = "val_epoch_end"
    /\ UNCHANGED <<es, error, stop_signals, resumes, saved, configured, validated, ddpVars, restoreVars, hpcVars, cbVars>>

StartTraining ==
    /\ pc = "fit_start"
    /\ pc' = "train"
    /\ UNCHANGED <<es, trainer, error, stop_signals, resumes, saved, configured, validated, ddpVars, restoreVars, hpcVars, cbVars>>

\* The epoch's training batches ran and a validation pass starts.
RunEvaluation ==
    /\ pc = "train"
    /\ \E logs \in LogsSet : trainer' = [trainer EXCEPT !.callback_metrics = logs]
    /\ pc' = "val_epoch_end"
    /\ validated' = TRUE
    /\ UNCHANGED <<es, error, stop_signals, resumes, saved, configured, ddpVars, restoreVars, hpcVars, cbVars>>

\* The epoch's training batches ran; no validation pass in this epoch.
TrainOnly ==
    /\ pc = "train"
    /\ \E logs \in LogsSet : trainer' = [trainer EXCEPT !.callback_metrics = logs]
    /\ pc' = "train_epoch_end"
    /\ UNCHANGED <<es, error, stop_signals, resumes, saved, configured, validated, ddpVars, restoreVars, hpcVars, cbVars>>

OnValidationEpochEnd ==
    /\ pc = "val_epoch_end"
    /\ AfterHook(on_validation_epoch_end(es, trainer), "val_end")

OnValidationEnd ==
    /\ pc = "val_end"
    /\ AfterHook(on_validation_end(es, trainer),
                 IF trainer.running_sanity_check THEN "sanity_done" ELSE "val_done")

SanityCheckDone ==
    /\ pc = "sanity_done"
    /\ trainer' = [trainer EXCEPT !.running_sanity_check = FALSE]
    /\ pc' = "train"
    /\ UNCHANGED <<es, error, stop_signals, resumes, saved, configured, validated, ddpVars, restoreVars, hpcVars, cbVars>>

\* The validation pass is over; the epoch goes on to its end.
EvaluationDone ==
    /\ pc = "val_done"
    /\ pc' = "train_epoch_end"
    /\ UNCHANGED <<es, trainer, error, stop_signals, resumes, saved, configured, validated, ddpVars, restoreVars, hpcVars, cbVars>>

OnTrainEpochEnd ==
    /\ pc = "train_epoch_end"
    /\ AfterHook(on_train_epoch_end(es, trainer), "epoch_end")

\* The loop goes on to the next epoch unless a stop was signalled.
NextEpoch ==
    /\ pc = "epoch_end"
    /\ ~trainer.should_stop
    /\ trainer.current_epoch < MaxEpoch
    /\ trainer' = [trainer EXCEPT !.current_epoch = @ + 1]
    /\ pc' = "train"
    /\ validated' = FALSE
    /\ UNCHANGED <<es, error, stop_signals, resumes, saved, configured, ddpVars, restoreVars, hpcVars, cbVars>>

\* The checkpoint a later run resumes from is taken at the end of an epoch:
\* the callback's entry of dump_checkpoint's record and the record's epoch.
\* source keeps the monitor the checkpoint was taken of.  What this run does
\* after the checkpoint has no effect on the run that resumes from it, so the
\* run is followed no further.
SaveCheckpointES ==
    /\ pc = "epoch_end"
    /\ saved' = [epoch     |-> trainer.current_epoch + 1,
                 callbacks |-> on_save_checkpoint(es),
                 source    |-> es]
    /\ pc' = "saved"
    /\ UNCHANGED <<es, trainer, error, stop_signals, resumes, configured, validated, ddpVars, restoreVars, hpcVars, cbVars>>

\* A new run starts from the checkpoint: the script constructs its monitor
\* again (the configured patience may differ) and a fresh trainer.
Restart ==
    /\ pc = "saved"
    /\ resumes < MaxResumes
    /\ saved.epoch <= MaxEpoch
    /\ \E p \in 0..MaxPatience :
           /\ es' = EarlyStoppingInit(es.monitor, ConfiguredDelta(es), p, es.mode, es.strict)
           /\ configured' = p
    /\ trainer' = TrainerInit
    /\ pc' = "restore"
    /\ stop_signals' = 0
    /\ resumes' = resumes + 1
    /\ validated' = FALSE
    /\ UNCHANGED <<error, saved, ddpVars, restoreVars, hpcVars, cbVars>>

\* restore_training_state: the callback loads its saved state (line 148) and
\* the trainer takes the record's epoch (line 151).
RestoreCallback ==
    /\ pc = "restore"
    /\ es' = on_load_checkpoint(es, saved.callbacks)
    /\ trainer' = [trainer EXCEPT !.current_epoch = saved.epoch]
    /\ pc' = "train"
    /\ UNCHANGED <<error, stop_signals, resumes, saved, configured, validated, ddpVars, restoreVars, hpcVars, cbVars>>

\* ------------------------------------------------------ the distributed run
\* Every process runs the same script: its own monitor and trainer, and its
\* own metrics snapshot in each evaluation cycle.  A process is at "hook"
\* (about to run on_validation_end), in the "collective" (line 205, waiting
\* for its peers), "returned" from the hook, or "crashed".  entered tells
\* whether the last check went through the collective, local_stop whether it
\* ran lines 201-202.
Procs == 1..NumProcs

RankTrainer(epoch, should_stop, logs) ==
    [current_epoch        |-> epoch,
     should_stop          |-> should_stop,
     running_sanity_check |-> FALSE,
     callback_metrics     |-> logs]

DDPInit ==
    \E s \in BOOLEAN :
        ranks = [p \in Procs |->
                    [es          |-> EarlyStoppingInit(MonitorKey, 0, RankPatience, "min", s),
                     epoch       |-> 0,
                     should_stop |-> FALSE,
                     pc          |-> "hook",
                     entered     |-> FALSE,
                     local_stop  |-> FALSE]]

\* Process p runs _run_early_stopping_check up to the collective.
RankCheck(p) ==
    /\ ranks[p].pc = "hook"
    /\ \E logs \in LogsSet :
           LET me == ranks[p]
               r  == CheckLocal(me.es, RankTrainer(me.epoch, me.should_stop, logs))
           IN  ranks' = [ranks EXCEPT ![p] =
                   [me EXCEPT !.es          = r.es,
                              !.should_stop = r.trainer.should_stop,
                              !.local_stop  = r.signalled,
                              !.pc          = CASE r.outcome = "raise"  -> "crashed"
                                                [] r.outcome = "return" -> "returned"
                                                [] OTHER                -> "collective"]]
    /\ UNCHANGED <<esVars, restoreVars, hpcVars, cbVars>>

\* Every process has called the collective: each gets the reduced decision
\* and stores it (line 206).
AllReduce ==
    /\ \A p \in Procs : ranks[p].pc = "collective"
    /\ LET flags   == [p \in Procs |-> ranks[p].should_stop]
           reduced == early_stopping_should_stop(flags)
       IN  ranks' = [p \in Procs |->
               LET me == ranks[p]
                   t  == StoreReduced(RankTrainer(me.epoch, me.should_stop, <<>>), reduced)
               IN  [me EXCEPT !.should_stop = t.should_stop,
                              !.entered     = TRUE,
                              !.pc          = "returned"]]
    /\ UNCHANGED <<esVars, restoreVars, hpcVars, cbVars>>

\* Process p's loop goes on to its next evaluation cycle unless it was told
\* to stop.
RankNextCycle(p) ==
    /\ ranks[p].pc = "returned"
    /\ ~ranks[p].should_stop
    /\ ranks[p].epoch < MaxCycle
    /\ ranks' = [ranks EXCEPT ![p] =
                    [@ EXCEPT !.epoch      = @ + 1,
                              !.pc         = "hook",
                              !.entered    = FALSE,
                              !.local_stop = FALSE]]
    /\ UNCHANGED <<esVars, restoreVars, hpcVars, cbVars>>

\* ------------------------------------------- dump and restore of a checkpoint
\* An optimizer's (scheduler's) state names the optimizer it is of and how far
\* it got.
OptState(i, step) == [id |-> i, step |-> step]

NewTrainer(n_opt, n_sched, max_epochs, hparams) ==
    [current_epoch |-> 0,
     global_step   |-> 0,
     max_epochs    |-> max_epochs,
     callbacks     |-> 0,
     optimizers    |-> [i \in 1..n_opt |-> OptState(i, 0)],
     lr_schedulers |-> [i \in 1..n_sched |-> OptState(i, 0)],
     hparams       |-> hparams,
     amp           |-> FALSE,
     num_training_batches    |-> 0,
     accumulate_grad_batches |-> <<>>]

\* Lines 254-258.
CheckpointHeader(t) ==
    [epoch |-> t.current_epoch + 1, global_step |-> t.global_step + 1]

\* Lines 262-284: callback, optimizer and scheduler states, in list order,
\* and the scaler's state when the trainer runs native amp (t.amp).
TrainingStateOf(t) ==
    [callbacks        |-> t.callbacks,
     optimizer_states |-> [i \in 1..Len(t.optimizers) |-> t.optimizers[i]],
     lr_schedulers    |-> [i \in 1..Len(t.lr_schedulers) |-> t.lr_schedulers[i]]]
    @@ (IF t.amp THEN [native_amp_scaling_state |-> "saved_scale"] ELSE <<>>)

\* Lines 286-300: the model's state_dict and, if any, its hyperparameters.
ModelStateOf(t) ==
    IF t.hparams
    THEN [state_dict |-> "weights", hyper_parameters |-> "hparams"]
    ELSE [state_dict |-> "weights"]

dump_checkpoint_Full(t, w_only) ==
    CheckpointHeader(t) @@ TrainingStateOf(t) @@ ModelStateOf(t)

dump_checkpoint(t, w_only) ==
    IF ~w_only
    THEN CheckpointHeader(t) @@ TrainingStateOf(t) @@ ModelStateOf(t)
    ELSE CheckpointHeader(t) @@ ModelStateOf(t)

\* utilities.upgrade_checkpoint.KEYS_MAPPING: the keys of the outdated schema.
DEPRECATED_CHECKPOINT_KEYS ==
    {"checkpoint_callback_best_model_score", "early_stop_callback_wait"}

\* Line 154.
EpochTooLarge_Inclusive(epoch, max_epochs) == epoch >= max_epochs

EpochTooLarge(epoch, max_epochs) == epoch > max_epochs

\* zip(live, states) with load_state_dict: the pairs that exist are loaded,
\* the rest of the longer list is left out.
LoadZipped(live, states) ==
    [i \in 1..Len(live) |-> IF i <= Len(states) THEN states[i] ELSE live[i]]

\* Lines 147-151: callback states and counters are taken from the record.
LoadCounters(t, checkpoint) ==
    [t EXCEPT !.callbacks     = checkpoint["callbacks"],
              !.global_step   = checkpoint["global_step"],
              !.current_epoch = checkpoint["epoch"]]

\* x % (num / den) > 1 for integers x >= 0, num > 0, den > 0: the remainder
\* of the float modulo is ((x * den) % num) / den.
FloatModAboveOne(x, num, den) == (x * den) % num > den

MidEpochWarning_Nonzero(t) ==
    LET n_accum == IF t.accumulate_grad_batches = <<>> THEN 1
                   ELSE t.accumulate_grad_batches[1]
    IN  /\ t.num_training_batches # 0
        /\ (t.global_step * n_accum) % t.num_training_batches > 0

\* Lines 161-170: expected_steps is num_training_batches / n_accum, and the
\* warning is given when global_step % expected_steps > 1.
MidEpochWarning(t) ==
    LET n_accum == IF t.accumulate_grad_batches = <<>> THEN 1
                   ELSE t.accumulate_grad_batches[1]
    IN  /\ t.num_training_batches # 0
        /\ FloatModAboveOne(t.global_step, t.num_training_batches, n_accum)

\* restore_training_state: the trainer as the call leaves it, the exception
\* it raised, if any, and whether it gave the mid-epoch warning.
restore_training_state(t, checkpoint) ==
    IF "optimizer_states" \notin DOMAIN checkpoint \/ "lr_schedulers" \notin DOMAIN checkpoint
    THEN [trainer |-> t, raised |-> "KeyError", warned |-> FALSE]
    ELSE IF \E key \in DEPRECATED_CHECKPOINT_KEYS : key \in DOMAIN checkpoint
    THEN [trainer |-> t, raised |-> "ValueError", warned |-> FALSE]
    ELSE LET t1 == LoadCounters(t, checkpoint)
         IN  IF EpochTooLarge(t1.current_epoch, t1.max_epochs)
             THEN [trainer |-> t1, raised |-> "MisconfigurationException", warned |-> FALSE]
             ELSE [warned |-> MidEpochWarning(t1), trainer |-> [t1 EXCEPT
                          !.optimizers    = LoadZipped(t1.optimizers, checkpoint["optimizer_states"]),
                          !.lr_schedulers = LoadZipped(t1.lr_schedulers, checkpoint["lr_schedulers"])],
                   raised  |-> None]

\* Trainer(accumulate_grad_batches=...): None is <<>>, a number n is <<n>>.
AccumulateChoices == {<<>>, <<1>>, <<2>>}

\* A model that nothing was loaded into.
NewModel == [state_dict |-> "initial", hooks |-> {}, device |-> "cpu", scaler |-> "initial"]

\* Lines 100-121 of restore: what it does to the model and the scaler before
\* it calls restore_training_state.
LoadModel(t, m, checkpoint, on_gpu, datamodule) ==
    [state_dict |-> checkpoint["state_dict"],
     hooks      |-> m.hooks \cup (IF datamodule THEN {"datamodule"} ELSE {}) \cup {"model"},
     device     |-> IF on_gpu THEN "cuda" ELSE m.device,
     scaler     |-> IF t.amp /\ "native_amp_scaling_state" \in DOMAIN checkpoint
                    THEN checkpoint["native_amp_scaling_state"]
                    ELSE m.scaler]

\* restore, from the loaded record on.
restore(t, m, checkpoint, on_gpu, datamodule) ==
    LET r == restore_training_state(t, checkpoint)
    IN  [trainer |-> r.trainer, raised |-> r.raised, warned |-> r.warned,
         model |-> LoadModel(t, m, checkpoint, on_gpu, datamodule)]

\* The run whose checkpoints are resumed from: one optimizer, one scheduler.
ResumeInit ==
    /\ rt = NewTrainer(1, 1, MaxEpoch, FALSE)
    /\ model = NewModel
    /\ warned = FALSE
    /\ record = <<>>
    /\ weights_only = FALSE
    /\ raised = None
    /\ rpc = "train"

RestoreInit ==
    /\ \E n_opt \in 0..MaxOpt, n_sched \in 0..MaxOpt, m \in 1..MaxEpoch, h \in BOOLEAN,
          a \in BOOLEAN :
           rt = [NewTrainer(n_opt, n_sched, m, h) EXCEPT !.amp = a]
    /\ model = NewModel
    /\ warned = FALSE
    /\ record = <<>>
    /\ weights_only = FALSE
    /\ raised = None
    /\ rpc = "train"

\* One optimizer step of the training loop.
TrainStep ==
    /\ rpc = "train"
    /\ rt.current_epoch < rt.max_epochs
    /\ rt.global_step < MaxStep
    /\ rt' = [rt EXCEPT !.global_step = @ + 1,
                        !.optimizers  = [i \in 1..Len(@) |-> OptState(i, rt.global_step + 1)]]
    /\ UNCHANGED <<record, weights_only, raised, rpc, model, warned, esVars, ddpVars, hpcVars, cbVars>>

\* The end of a training epoch: schedulers step, callbacks update their state.
EpochEnd ==
    /\ rpc = "train"
    /\ rt.current_epoch + 1 < rt.max_epochs
    /\ rt' = [rt EXCEPT !.current_epoch = @ + 1,
                        !.callbacks     = rt.current_epoch + 1,
                        !.lr_schedulers = [i \in 1..Len(@) |-> OptState(i, rt.current_epoch + 1)]]
    /\ UNCHANGED <<record, weights_only, raised, rpc, model, warned, esVars, ddpVars, hpcVars, cbVars>>

DumpCheckpoint ==
    /\ rpc = "train"
    /\ \E w \in BOOLEAN :
           /\ record' = dump_checkpoint(rt, w)
           /\ weights_only' = w
    /\ rpc' = "dumped"
    /\ UNCHANGED <<rt, raised, model, warned, esVars, ddpVars, hpcVars, cbVars>>

\* A new run is set up to restore the record: its trainer is fresh and may
\* have other optimizers, schedulers and max_epochs; the record may be of the
\* outdated schema.
NewRun ==
    /\ rpc = "dumped"
    /\ \E n_opt \in 0..MaxOpt, n_sched \in 0..MaxOpt, m \in 1..MaxEpoch :
           rt' = [NewTrainer(n_opt, n_sched, m, rt.hparams) EXCEPT !.amp = rt.amp]
    /\ \/ record' = record
       \/ \E key \in DEPRECATED_CHECKPOINT_KEYS : record' = record @@ (key :> 0)
    /\ raised' = None
    /\ rpc' = "restore"
    /\ UNCHANGED <<weights_only, model, warned, esVars, ddpVars, hpcVars, cbVars>>

\* The run is followed up to the end of the restore: the training that comes
\* after it is the training of TrainStep and EpochEnd, from other counters.
RestoreTrainingState ==
    /\ rpc = "restore"
    /\ LET r == restore_training_state(rt, record)
       IN  /\ rt' = r.trainer
           /\ raised' = r.raised
           /\ warned' = r.warned
           /\ rpc' = IF r.raised = None THEN "restored" ELSE "failed"
    /\ UNCHANGED <<record, weights_only, model, esVars, ddpVars, hpcVars, cbVars>>

\* A new run with the same optimizers and schedulers is set up to resume
\* from the record; its epochs have any number of batches.
ResumeRun ==
    /\ rpc = "dumped"
    /\ \E b \in 0..MaxBatches, a \in AccumulateChoices :
           rt' = [NewTrainer(Len(rt.optimizers), Len(rt.lr_schedulers), rt.max_epochs,
                             rt.hparams)
                  EXCEPT !.amp = rt.amp,
                         !.num_training_batches = b,
                         !.accumulate_grad_batches = a]
    /\ raised' = None
    /\ rpc' = "restore"
    /\ UNCHANGED <<record, weights_only, model, warned, esVars, ddpVars, hpcVars, cbVars>>

\* restore(checkpoint_path, on_gpu) of the record.
Restore ==
    /\ rpc = "restore"
    /\ \E on_gpu \in BOOLEAN, datamodule \in BOOLEAN :
           LET r == restore(rt, model, record, on_gpu, datamodule)
           IN  /\ rt' = r.trainer
               /\ raised' = r.raised
               /\ model' = r.model
               /\ warned' = r.warned
               /\ rpc' = IF r.raised = None THEN "restored" ELSE "failed"
    /\ UNCHANGED <<record, weights_only, esVars, ddpVars, hpcVars, cbVars>>

\* ------------------------------------------------------ the checkpoint folder
\* File names are sequences of characters.
Str_hpc_ckpt == <<"h", "p", "c", "_", "c", "k", "p", "t">>
Str_ckpt_ == <<"c", "k", "p", "t", "_">>
Str_dot_ckpt == <<".", "c", "k", "p", "t">>

DigitChars == <<"0", "1", "2", "3", "4", "5", "6", "7", "8", "9">>

IsDigit(c) == \E d \in 1..10 : DigitChars[d] = c

DigitValue(c) == (CHOOSE d \in 1..10 : DigitChars[d] = c) - 1

\* sub in s
Contains(s, sub) ==
    \E i \in 1..(Len(s) - Len(sub) + 1) : SubSeq(s, i, i + Len(sub) - 1) = sub

\* s.split(key)[-1], for s that holds key: what follows its last occurrence.
SplitLast(s, key) ==
    LET at == {i \in 1..(Len(s) - Len(key) + 1) : SubSeq(s, i, i + Len(key) - 1) = key}
        last == CHOOSE i \in at : \A j \in at : j <= i
    IN  SubSeq(s, last + Len(key), Len(s))

\* re.sub('[^0-9]', '', s)
StripNonDigits(s) == SelectSeq(s, IsDigit)

\* int(s) of a string of digits; int('') raises ValueError.
RECURSIVE ParseInt(_)
ParseInt(s) ==
    IF s = <<>> THEN 0
    ELSE 10 * ParseInt(SubSeq(s, 1, Len(s) - 1)) + DigitValue(s[Len(s)])

\* str(n) of n >= 0
RECURSIVE FormatInt(_)
FormatInt(n) ==
    IF n < 10 THEN <<DigitChars[n + 1]>>
    ELSE FormatInt(n \div 10) \o <<DigitChars[(n % 10) + 1]>>

\* f'hpc_ckpt_{n}.ckpt'
HpcName(n) == Str_hpc_ckpt \o <<"_">> \o FormatInt(n) \o Str_dot_ckpt

SetMax(S) == CHOOSE x \in S : \A y \in S : y <= x

\* max_ckpt_in_folder(path, name_key): 0 without a file that holds name_key,
\* a ValueError when such a file has no digit after it, else the largest of
\* the numbers the files' digits spell.
max_ckpt_in_folder(files, name_key) ==
    LET named == {x \in files : Contains(x, name_key)}
        digits(x) == StripNonDigits(SplitLast(x, name_key))
    IN  IF named = {} THEN [raised |-> None, n |-> 0]
        ELSE IF \E x \in named : digits(x) = <<>> THEN [raised |-> "ValueError", n |-> 0]
        ELSE [raised |-> None, n |-> SetMax({ParseInt(digits(x)) : x \in named})]

NotResumed == [called |-> FALSE]

\* hpc_load: the file named after max_ckpt_in_folder is read.
hpc_load(dir) ==
    LET files == DOMAIN dir.files
        max   == max_ckpt_in_folder(files, Str_ckpt_)
        n     == max.n
    IN  IF max.raised # None
        THEN [called |-> TRUE, did_restore |-> FALSE, loaded |-> <<>>, raised |-> "ValueError"]
        ELSE IF HpcName(n) \notin files
        THEN [called |-> TRUE, did_restore |-> FALSE, loaded |-> <<>>,
              raised |-> "FileNotFoundError"]
        ELSE [called |-> TRUE, did_restore |-> TRUE, loaded |-> HpcName(n), raised |-> None]

restore_hpc_weights_if_needed(dir) ==
    IF dir.exists /\ {x \in DOMAIN dir.files : Contains(x, Str_hpc_ckpt)} # {}
    THEN hpc_load(dir)
    ELSE [called |-> TRUE, did_restore |-> FALSE, loaded |-> <<>>, raised |-> None]

\* atomic_save(checkpoint, filepath)
atomic_save(dir, content, filepath) ==
    [dir EXCEPT !.files = (filepath :> content) @@ @]

\* The keys of a record whose values cannot be pickled are given by bad: the
\* serialization raises AttributeError before the file is opened.
Unpicklable(checkpoint, bad) == \E key \in DOMAIN checkpoint : key \in bad

TryAtomicSave(dir, checkpoint, filepath, bad) ==
    IF Unpicklable(checkpoint, bad)
    THEN [dir |-> dir, raised |-> "AttributeError"]
    ELSE [dir |-> atomic_save(dir, checkpoint, filepath), raised |-> None]

\* LightningModule.CHECKPOINT_HYPER_PARAMS_KEY
CHECKPOINT_HYPER_PARAMS_KEY == "hyper_parameters"

\* del checkpoint[CHECKPOINT_HYPER_PARAMS_KEY], if the key is there
DropHyperParams(checkpoint) ==
    [key \in DOMAIN checkpoint \ {CHECKPOINT_HYPER_PARAMS_KEY} |-> checkpoint[key]]

SaveWithRetry_KeepsHyperParams(dir, checkpoint, filepath, bad) ==
    LET first == TryAtomicSave(dir, checkpoint, filepath, bad)
    IN  IF first.raised = None
        THEN [dir |-> first.dir, raised |-> None, attempts |-> 1, checkpoint |-> checkpoint]
        ELSE LET second == TryAtomicSave(dir, checkpoint, filepath, bad)
             IN  [dir |-> second.dir, raised |-> second.raised, attempts |-> 2,
                  checkpoint |-> checkpoint]

\* The try / except AttributeError / retry of hpc_save and save_checkpoint:
\* the folder as it is left, the exception that propagates, the number of
\* atomic_save calls and the record of the last call.
SaveWithRetry(dir, checkpoint, filepath, bad) ==
    LET first == TryAtomicSave(dir, checkpoint, filepath, bad)
    IN  IF first.raised = None
        THEN [dir |-> first.dir, raised |-> None, attempts |-> 1, checkpoint |-> checkpoint]
        ELSE LET retried == DropHyperParams(checkpoint)
                 second  == TryAtomicSave(dir, retried, filepath, bad)
             IN  [dir |-> second.dir, raised |-> second.raised, attempts |-> 2,
                  checkpoint |-> retried]

\* The record a process dumps at its k-th save.
SaverCheckpoint(k, hparams, w_only) ==
    dump_checkpoint([NewTrainer(0, 0, 1, hparams) EXCEPT !.global_step = k], w_only)

\* The fields that may hold a value that cannot be pickled.
PickleFields == {CHECKPOINT_HYPER_PARAMS_KEY, "state_dict"}

NoSave == [attempts |-> 0]

\* What a save leaves in lastsave; before is the folder it found.
SaveOutcome(p, r, checkpoint, filepath, bad, before) ==
    [rank |-> p, attempts |-> r.attempts, raised |-> r.raised, checkpoint |-> checkpoint,
     written |-> r.checkpoint, filepath |-> filepath, bad |-> bad, before |-> before]

\* trainer.is_global_zero
is_global_zero(p) == p = 0

SaverProcs == 0..(NumProcs - 1)

\* The snapshots an earlier job may have left in the folder.
SnapshotNumbers == {3, 10}

\* The paths save_checkpoint is called with (ModelCheckpoint's file names).
UserPaths == {<<"l", "a", "s", "t">> \o Str_dot_ckpt,
              <<"_">> \o Str_ckpt_ \o <<"e", "p", "o", "c", "h", "_", "1", "2">> \o Str_dot_ckpt}

\* The save operations begun so far, by the processes up to p.
RECURSIVE SavesBegun(_)
SavesBegun(p) ==
    IF p \notin SaverProcs THEN 0
    ELSE savers[p].saves + (IF savers[p].pc = "hpc_write" THEN 1 ELSE 0) + SavesBegun(p - 1)

HpcInit ==
    /\ \E e \in BOOLEAN, ns \in SUBSET SnapshotNumbers :
           /\ (~e => ns = {})
           /\ folder = [exists |-> e,
                        files  |-> [x \in {HpcName(n) : n \in ns} |->
                                        SaverCheckpoint(0, FALSE, FALSE)]]
    /\ savers = [p \in SaverProcs |->
                    [pc |-> "idle", filepath |-> <<>>, saves |-> 0]]
    /\ lastsave = NoSave
    /\ writes = {}
    /\ resume = NotResumed

\* Process p runs save_checkpoint(filepath): only the global-zero process
\* writes.
SaveCheckpoint(p) ==
    /\ resume = NotResumed
    /\ savers[p].pc = "idle"
    /\ SavesBegun(NumProcs - 1) < MaxSaves
    /\ folder.exists
    /\ IF is_global_zero(p)
       THEN \E filepath \in UserPaths, h \in BOOLEAN, bad \in SUBSET PickleFields :
                LET checkpoint == SaverCheckpoint(savers[p].saves + 1, h, FALSE)
                    r          == SaveWithRetry(folder, checkpoint, filepath, bad)
                IN  /\ folder' = r.dir
                    /\ writes' = IF r.raised = None THEN writes \cup {<<p, filepath>>}
                                  ELSE writes
                    /\ lastsave' = SaveOutcome(p, r, checkpoint, filepath, bad, folder.files)
       ELSE UNCHANGED <<folder, writes, lastsave>>
    /\ savers' = [savers EXCEPT ![p].saves = @ + 1]
    /\ UNCHANGED <<resume, esVars, ddpVars, restoreVars, cbVars>>

\* Process p runs hpc_save up to the write: the folder is made, the number of
\* the new snapshot is one more than max_ckpt_in_folder.
HpcSaveBegin(p) ==
    /\ resume = NotResumed
    /\ savers[p].pc = "idle"
    /\ SavesBegun(NumProcs - 1) < MaxSaves
    /\ LET max == max_ckpt_in_folder(DOMAIN folder.files, Str_ckpt_)
       IN  savers' = IF max.raised # None
                     THEN [savers EXCEPT ![p].saves = @ + 1]
                     ELSE [savers EXCEPT ![p].pc = "hpc_write",
                                         ![p].filepath = HpcName(max.n + 1)]
    /\ folder' = [folder EXCEPT !.exists = TRUE]
    /\ UNCHANGED <<writes, resume, lastsave, esVars, ddpVars, restoreVars, cbVars>>

\* Lines 233-243: hpc_save writes the snapshot.
HpcSaveWrite(p) ==
    /\ savers[p].pc = "hpc_write"
    /\ \E h \in BOOLEAN, bad \in SUBSET PickleFields :
           LET checkpoint == SaverCheckpoint(savers[p].saves + 1, h, FALSE)
               filepath   == savers[p].filepath
               r          == SaveWithRetry(folder, checkpoint, filepath, bad)
           IN  /\ folder' = r.dir
               /\ writes' = IF r.raised = None THEN writes \cup {<<p, filepath>>} ELSE writes
               /\ lastsave' = SaveOutcome(p, r, checkpoint, filepath, bad, folder.files)
               /\ savers' = [savers EXCEPT ![p].pc = "idle", ![p].saves = @ + 1]
    /\ UNCHANGED <<resume, esVars, ddpVars, restoreVars, cbVars>>

\* The job was requeued: the new run looks for snapshots to resume from.
RestoreHpcWeights ==
    /\ resume = NotResumed
    /\ \A p \in SaverProcs : savers[p].pc = "idle"
    /\ resume' = restore_hpc_weights_if_needed(folder)
    /\ UNCHANGED <<folder, savers, writes, lastsave, esVars, ddpVars, restoreVars, cbVars>>

\* ------------------------------------------------- the callback on its own
\* The hooks are public: whatever trainer drives the callback calls them with
\* its own metrics snapshot, in a sanity check or not.
Monitors == {MonitorKey, "acc", "val_acc"}
Modes == {"min", "max", "auto", "unknown"}

LogsOf(monitor) == {"loss" :> 1} \cup {("loss" :> 1) @@ (monitor :> v) : v \in Values}

\* The message of the RuntimeError: the monitored key and the keys available.
error_msg(self, logs) == [monitor |-> self.monitor, keys |-> DOMAIN logs]

\* min_delta is any number: __init__ does not check its sign.
MinDeltas == (0 - MaxDelta)..MaxDelta

\* The values of the monitored key in a metrics snapshot.
ObservedIn(logs, monitor) == IF HasMetric(logs, monitor) THEN {logs[monitor]} ELSE {}

CallbackInit ==
    \E monitor \in Monitors, mode \in Modes, d \in MinDeltas, s \in BOOLEAN :
        cb = [config  |-> [monitor |-> monitor, mode |-> mode, min_delta |-> d,
                           patience |-> RankPatience, strict |-> s],
              es      |-> EarlyStoppingInit(monitor, d, RankPatience, mode, s),
              trainer |-> TrainerInit,
              hook    |-> "__init__",
              outcome |-> "return",
              error   |-> None,
              calls   |-> 0,
              observed |-> {}]

\* The trainer as a hook finds it: a metrics snapshot of the trainer's own,
\* each call in a later epoch.
HookInput(logs, sanity) ==
    [cb.trainer EXCEPT !.callback_metrics = logs,
                       !.running_sanity_check = sanity,
                       !.current_epoch = cb.calls]

\* The hook called name returned r.
AfterCall(name, logs, r) ==
    /\ cb' = [cb EXCEPT !.es = r.es,
                        !.trainer = r.trainer,
                        !.hook = name,
                        !.outcome = r.outcome,
                        !.error = IF r.outcome = "raise" THEN error_msg(cb.es, logs)
                                  ELSE None,
                        !.calls = @ + 1,
                        !.observed = @ \cup ObservedIn(logs, cb.es.monitor)]
    /\ UNCHANGED <<esVars, ddpVars, restoreVars, hpcVars>>

\* A RuntimeError ends the run.
CanCall == cb.outcome # "raise" /\ cb.calls < MaxCalls

CallOnValidationEpochEnd ==
    /\ CanCall
    /\ \E logs \in LogsOf(cb.es.monitor), sanity \in BOOLEAN :
           AfterCall("on_validation_epoch_end", logs,
                     on_validation_epoch_end(cb.es, HookInput(logs, sanity)))

CallOnValidationEnd ==
    /\ CanCall
    /\ \E logs \in LogsOf(cb.es.monitor), sanity \in BOOLEAN :
           AfterCall("on_validation_end", logs,
                     on_validation_end(cb.es, HookInput(logs, sanity)))

CallOnTrainEpochEnd ==
    /\ CanCall
    /\ \E logs \in LogsOf(cb.es.monitor), sanity \in BOOLEAN :
           AfterCall("on_train_epoch_end", logs,
                     on_train_epoch_end(cb.es, HookInput(logs, sanity)))

\* --------------------------------------------------------- specifications
DDPIdle == ranks = <<>>

ESIdle ==
    /\ es = EarlyStoppingInit(MonitorKey, 0, 0, "min", FALSE)
    /\ trainer = TrainerInit
    /\ pc = "idle"
    /\ error = None
    /\ stop_signals = 0
    /\ resumes = 0
    /\ saved = NoCkpt
    /\ configured = 0
    /\ validated = FALSE

RestoreIdle ==
    /\ rt = NewTrainer(0, 0, 1, FALSE)
    /\ record = <<>>
    /\ weights_only = FALSE
    /\ raised = None
    /\ rpc = "idle"
    /\ model = NewModel
    /\ warned = FALSE

HpcIdle ==
    /\ folder = [exists |-> FALSE, files |-> <<>>]
    /\ savers = <<>>
    /\ writes = {}
    /\ resume = NotResumed
    /\ lastsave = NoSave

CallbackIdle == cb = <<>>

InitES == ESInit /\ DDPIdle /\ RestoreIdle /\ HpcIdle /\ CallbackIdle

NextES ==
    \/ StartSanityCheck
    \/ StartTraining
    \/ RunEvaluation
    \/ TrainOnly
    \/ OnValidationEpochEnd
    \/ OnValidationEnd
    \/ SanityCheckDone
    \/ EvaluationDone
    \/ OnTrainEpochEnd
    \/ NextEpoch
    \/ SaveCheckpointES
    \/ Restart
    \/ RestoreCallback

SpecES == InitES /\ [][NextES]_vars

InitDDP == DDPInit /\ ESIdle /\ RestoreIdle /\ HpcIdle /\ CallbackIdle

NextDDP ==
    \/ \E p \in Procs : RankCheck(p)
    \/ AllReduce
    \/ \E p \in Procs : RankNextCycle(p)

SpecDDP == InitDDP /\ [][NextDDP]_vars

InitRestore == RestoreInit /\ ESIdle /\ DDPIdle /\ HpcIdle /\ CallbackIdle

NextRestore ==
    \/ Restore
    \/ TrainStep
    \/ EpochEnd
    \/ DumpCheckpoint
    \/ NewRun
    \/ RestoreTrainingState

SpecRestore == InitRestore /\ [][NextRestore]_vars

InitResume == ResumeInit /\ ESIdle /\ DDPIdle /\ HpcIdle /\ CallbackIdle

NextResume ==
    \/ TrainStep
    \/ EpochEnd
    \/ DumpCheckpoint
    \/ ResumeRun
    \/ RestoreTrainingState

SpecResume == InitResume /\ [][NextResume]_vars

InitHpc == HpcInit /\ ESIdle /\ DDPIdle /\ RestoreIdle /\ CallbackIdle

NextHpc ==
    \/ \E p \in SaverProcs : SaveCheckpoint(p)
    \/ \E p \in SaverProcs : HpcSaveBegin(p)
    \/ \E p \in SaverProcs : HpcSaveWrite(p)
    \/ RestoreHpcWeights

SpecHpc == InitHpc /\ [][NextHpc]_vars

InitCallback == CallbackInit /\ ESIdle /\ DDPIdle /\ RestoreIdle /\ HpcIdle

NextCallback ==
    \/ CallOnValidationEpochEnd
    \/ CallOnValidationEnd
    \/ CallOnTrainEpochEnd

SpecCallback == InitCallback /\ [][NextCallback]_vars

\* ---------------------------------------------------------------- claims
\* C1 as stated: wait_count never exceeds patience, for every configured
\* patience and every sequence of metric values.
C1_WaitWithinPatience_Original == es.wait_count <= es.patience

\* C1 as amended: in a run that starts with a freshly constructed monitor of
\* patience >= 1 (not resumed from a checkpoint) and that the loop ends at the
\* stop signal, wait_count never exceeds patience.
C1_WaitWithinPatience ==
    (resumes = 0 /\ es.patience >= 1) => es.wait_count <= es.patience

C1_Witness ==
    /\ resumes = 0
    /\ es.patience = MaxPatience
    /\ es.wait_count = es.patience
    /\ trainer.should_stop

\* C2 as stated: once a check has run, the stop signal has been raised
\* (exactly once) exactly when wait_count has reached patience.
C2_StopOnce_Original ==
    es.best_score[1] = 0 =>
        /\ stop_signals <= 1
        /\ (stop_signals = 1) <=> (es.wait_count >= es.patience)

\* C2 as amended: in a run that starts with a freshly constructed monitor of
\* patience >= 1, the stop signal (trainer.should_stop true, stopped_epoch the
\* current epoch) has been raised once if wait_count has reached patience and
\* not at all if it has not.
C2_StopOnce ==
    (resumes = 0 /\ es.patience >= 1) =>
        /\ stop_signals = (IF es.wait_count >= es.patience THEN 1 ELSE 0)
        /\ stop_signals = 1 =>
               trainer.should_stop /\ es.stopped_epoch = trainer.current_epoch
        /\ stop_signals = 0 => ~trainer.should_stop /\ es.stopped_epoch = 0

C2_Witness ==
    /\ resumes = 0
    /\ es.patience >= 1
    /\ stop_signals = 1
    /\ es.stopped_epoch = trainer.current_epoch
    /\ es.stopped_epoch >= 1
    /\ pc = "epoch_end"

\* C4: a stopping check that finds the monitored key absent under
\* strict = false returns and leaves the monitor and trainer.should_stop as
\* they were (on_validation_end is the hook that runs the check then).
C4_MissingMetricNoChange ==
    [][(/\ pc = "val_end"
        /\ ~trainer.running_sanity_check
        /\ ~HasMetric(trainer.callback_metrics, es.monitor)
        /\ ~es.strict)
       => (/\ es' = es
           /\ trainer'.should_stop = trainer.should_stop
           /\ error' = None
           /\ pc' = "val_done")]_vars

C4_Witness ==
    /\ pc = "val_done"
    /\ ~HasMetric(trainer.callback_metrics, es.monitor)
    /\ ~es.strict
    /\ es.wait_count >= 1
    /\ es.best_score[1] = 0

\* C5: loading a saved monitor state gives the wait_count, stopped_epoch,
\* best_score and patience of the monitor it was saved of, whatever patience
\* the loading monitor was configured with.
C5_SaveLoadRoundTrip ==
    [][pc = "restore" =>
           /\ es'.wait_count = saved.source.wait_count
           /\ es'.stopped_epoch = saved.source.stopped_epoch
           /\ es'.best_score = saved.source.best_score
           /\ es'.patience = saved.source.patience]_vars

C5_Witness ==
    /\ resumes = 1
    /\ pc = "train"
    /\ trainer.current_epoch = saved.epoch
    /\ configured # es.patience
    /\ es.wait_count >= 1
    /\ es.wait_count = saved.source.wait_count
    /\ es.best_score[1] = 0

\* C3: once all processes have returned from the stopping check of an
\* evaluation cycle, trainer.should_stop is true on every process if the local
\* decision of at least one of them in that cycle was to stop.
C3_AnyStopsAll ==
    \A e \in 0..MaxCycle :
        ((\A p \in Procs : ranks[p].pc = "returned" /\ ranks[p].epoch = e)
          /\ (\E q \in Procs : ranks[q].local_stop))
            => \A p \in Procs : ranks[p].should_stop

C3_Witness ==
    /\ \A p \in Procs : ranks[p].pc = "returned" /\ ranks[p].entered /\ ranks[p].should_stop
    /\ \E p, q \in Procs : ranks[p].local_stop /\ ~ranks[q].local_stop
    /\ \A p \in Procs : ranks[p].epoch = RankPatience

\* restore_training_state gets past its first two checks: the record holds
\* both state lists and no key of the outdated schema.
PassesSchemaChecks(checkpoint) ==
    /\ "optimizer_states" \in DOMAIN checkpoint
    /\ "lr_schedulers" \in DOMAIN checkpoint
    /\ \A key \in DEPRECATED_CHECKPOINT_KEYS : key \notin DOMAIN checkpoint

\* C6: a record dumped with weights_only = True holds neither
\* optimizer_states nor lr_schedulers, and restore_training_state of it
\* raises the KeyError and leaves the trainer as it was.
C6_WeightsOnlyRestoreFails ==
    [][(rpc = "restore" /\ weights_only)
       => (/\ "optimizer_states" \notin DOMAIN record
           /\ "lr_schedulers" \notin DOMAIN record
           /\ raised' = "KeyError"
           /\ rt' = rt)]_vars

C6_Witness ==
    /\ rpc = "failed"
    /\ weights_only
    /\ raised = "KeyError"
    /\ record["epoch"] >= 2
    /\ Len(rt.optimizers) >= 1
    /\ rt.current_epoch = 0

\* C8: a restore that reaches the epoch check raises the
\* MisconfigurationException exactly when the record's epoch is greater than
\* max_epochs, and goes through otherwise.
C8_EpochCheck ==
    [][(rpc = "restore" /\ PassesSchemaChecks(record))
       => (/\ (raised' = "MisconfigurationException") <=> (record["epoch"] > rt.max_epochs)
           /\ (raised' = None) <=> (record["epoch"] <= rt.max_epochs))]_vars

C8_Witness ==
    /\ rpc = "failed"
    /\ raised = "MisconfigurationException"
    /\ record["epoch"] = rt.max_epochs + 1

\* C9 as stated: a restore that succeeded loaded the i-th saved state into the
\* i-th live optimizer and scheduler, and the saved and live lists have the
\* same lengths (a mismatch would have made it fail).
C9_PositionalOrError ==
    rpc = "restored" =>
        /\ Len(record["optimizer_states"]) = Len(rt.optimizers)
        /\ Len(record["lr_schedulers"]) = Len(rt.lr_schedulers)
        /\ \A i \in 1..Len(rt.optimizers) : rt.optimizers[i] = record["optimizer_states"][i]
        /\ \A i \in 1..Len(rt.lr_schedulers) : rt.lr_schedulers[i] = record["lr_schedulers"][i]

\* A preemption snapshot is a file named hpc_ckpt_<digits>.ckpt.
IsSnapshot(x) ==
    /\ Len(x) > Len(Str_hpc_ckpt) + 1 + Len(Str_dot_ckpt)
    /\ SubSeq(x, 1, Len(Str_hpc_ckpt) + 1) = Str_hpc_ckpt \o <<"_">>
    /\ SubSeq(x, Len(x) - Len(Str_dot_ckpt) + 1, Len(x)) = Str_dot_ckpt
    /\ \A i \in (Len(Str_hpc_ckpt) + 2)..(Len(x) - Len(Str_dot_ckpt)) : IsDigit(x[i])

SnapshotNumber(x) ==
    ParseInt(SubSeq(x, Len(Str_hpc_ckpt) + 2, Len(x) - Len(Str_dot_ckpt)))

\* C7: once the resume from a preemption snapshot has run, it has restored
\* nothing and raised nothing when the folder is missing or holds no
\* snapshot; otherwise it has restored from a snapshot that is in the folder
\* and whose number is the highest of the snapshots in the folder.
C7_ResumeLoadsHighestSnapshot ==
    resume.called =>
        LET snaps == {x \in DOMAIN folder.files : IsSnapshot(x)}
        IN  IF ~folder.exists \/ snaps = {}
            THEN ~resume.did_restore /\ resume.loaded = <<>> /\ resume.raised = None
            ELSE /\ resume.did_restore
                 /\ resume.loaded \in snaps
                 /\ \A y \in snaps : SnapshotNumber(y) <= SnapshotNumber(resume.loaded)

\* C10: every write of a checkpoint is made by the global-zero process, and
\* no two processes write the same destination.
C10_OnlyGlobalZeroWrites ==
    /\ \A w \in writes : is_global_zero(w[1])
    /\ \A w1, w2 \in writes : w1[2] = w2[2] => w1[1] = w2[1]

\* C11: in a save (hpc_save, or save_checkpoint on the global-zero process)
\* whose first write raises because a field cannot be pickled, the
\* hyper_parameters key is removed, the rest of the record is kept and the
\* write is made once more: if that write goes through, the save raises
\* nothing and the destination holds the retried record; if not, its error
\* propagates after two attempts and the folder is as it was. In every
\* outcome the destination holds a whole record of the save or what it held.
C11_RetryOnce ==
    [][\A p \in SaverProcs :
          (/\ savers'[p].saves = savers[p].saves + 1
           /\ (savers[p].pc = "hpc_write" \/ is_global_zero(p)))
          => LET s    == lastsave'
                 full == s.checkpoint
                 path == s.filepath
             IN  /\ Unpicklable(full, s.bad)
                     => /\ s.attempts = 2
                        /\ CHECKPOINT_HYPER_PARAMS_KEY \notin DOMAIN s.written
                        /\ \A key \in DOMAIN full \ {CHECKPOINT_HYPER_PARAMS_KEY} :
                               key \in DOMAIN s.written /\ s.written[key] = full[key]
                        /\ IF Unpicklable(s.written, s.bad)
                           THEN s.raised = "AttributeError" /\ folder'.files = folder.files
                           ELSE /\ s.raised = None
                                /\ folder'.files = (path :> s.written) @@ folder.files
                 /\ \/ folder'.files = folder.files
                    \/ /\ path \in DOMAIN folder'.files
                       /\ folder'.files[path] \in {full, s.written}
                       /\ \A x \in DOMAIN folder.files \ {path} :
                              x \in DOMAIN folder'.files /\ folder'.files[x] = folder.files[x]
      ]_vars

\* A save whose first write failed on the hyperparameters and whose retry
\* wrote the record without them over an older file.
C11_Witness ==
    /\ lastsave.attempts = 2
    /\ lastsave.raised = None
    /\ CHECKPOINT_HYPER_PARAMS_KEY \in DOMAIN lastsave.checkpoint
    /\ lastsave.filepath \in DOMAIN lastsave.before
    /\ folder.files[lastsave.filepath] = lastsave.written
    /\ folder.files[lastsave.filepath] # lastsave.before[lastsave.filepath]
    /\ CHECKPOINT_HYPER_PARAMS_KEY \notin DOMAIN folder.files[lastsave.filepath]

\* The monitor state a stopping check works on.
MonitorState(self) == <<self.wait_count, self.best_score, self.stopped_epoch>>

\* A hook was called on a strict callback with the monitored key absent.
StrictCallWithoutKey ==
    /\ cb'.calls = cb.calls + 1
    /\ cb.es.strict
    /\ ~HasMetric(cb'.trainer.callback_metrics, cb.es.monitor)

\* C12 as stated: with strict = True and the monitored key absent, every one
\* of the three hooks, called outside the sanity check, raises the error that
\* lists the available keys and leaves wait_count, best_score and
\* stopped_epoch unchanged.
C12_StrictRaises_Original ==
    [][(StrictCallWithoutKey /\ ~cb'.trainer.running_sanity_check)
       => (/\ cb'.outcome = "raise"
           /\ cb'.error = [monitor |-> cb.es.monitor,
                           keys |-> DOMAIN cb'.trainer.callback_metrics]
           /\ MonitorState(cb'.es) = MonitorState(cb.es))]_vars

\* C12: with strict = True and the monitored key absent, on_validation_end
\* and on_validation_epoch_end outside the sanity check raise the
\* RuntimeError that lists the available keys, on_train_epoch_end returns
\* without an error, and in both cases wait_count, best_score, stopped_epoch
\* and trainer.should_stop are unchanged.
C12_StrictRaises ==
    [][StrictCallWithoutKey
       => (/\ MonitorState(cb'.es) = MonitorState(cb.es)
           /\ cb'.trainer.should_stop = cb.trainer.should_stop
           /\ (cb'.hook \in {"on_validation_end", "on_validation_epoch_end"}
                /\ ~cb'.trainer.running_sanity_check)
               => (/\ cb'.outcome = "raise"
                   /\ cb'.error = [monitor |-> cb.es.monitor,
                                   keys |-> DOMAIN cb'.trainer.callback_metrics])
           /\ cb'.hook = "on_train_epoch_end"
               => (cb'.outcome = "return" /\ cb'.error = None))]_vars

\* on_validation_end raised on a callback that had counted a cycle before.
C12_Witness ==
    /\ cb.hook = "on_validation_end"
    /\ cb.outcome = "raise"
    /\ cb.es.strict
    /\ cb.es.wait_count >= 1
    /\ cb.error.keys = {"loss"}

\* The monitored keys that name an accuracy.
AccuracyKeys == {"acc", "val_acc"}

\* C13: the callback's direction is the configured mode when that is min or
\* max; with any other mode it is max for a monitored key that names an
\* accuracy and min otherwise; the comparison is less-than for min and
\* greater-than for max, and a new callback's best_score is +infinity for min
\* and -infinity for max.
C13_DirectionResolved ==
    LET expected == IF cb.config.mode \in {"min", "max"} THEN cb.config.mode
                    ELSE IF cb.config.monitor \in AccuracyKeys THEN "max"
                    ELSE "min"
    IN  /\ cb.es.mode = expected
        /\ monitor_op(cb.es) = (IF expected = "min" THEN "lt" ELSE "gt")
        /\ cb.hook = "__init__"
            => cb.es.best_score = (IF expected = "min" THEN torch_inf ELSE NegInf)

C15_DeprecatedCheckedFirst ==
    [][(/\ rpc = "restore"
        /\ "optimizer_states" \in DOMAIN record
        /\ "lr_schedulers" \in DOMAIN record
        /\ \E key \in DEPRECATED_CHECKPOINT_KEYS : key \in DOMAIN record)
       => (raised' = "ValueError" /\ model' = model)]_vars

\* C16: a preemption save that writes, writes hpc_ckpt_<N>.ckpt with N one
\* more than the largest number of the snapshots in the folder (1 when there
\* is none), and no file of that name is in the folder before the write.
C16_NextNumber ==
    [][\A p \in SaverProcs :
          (/\ savers[p].pc = "hpc_write"
           /\ savers'[p].pc = "idle"
           /\ lastsave'.raised = None)
          => LET snaps == {x \in DOMAIN folder.files : IsSnapshot(x)}
                 n     == IF snaps = {} THEN 0
                          ELSE SetMax({SnapshotNumber(x) : x \in snaps})
             IN  /\ lastsave'.filepath = HpcName(n + 1)
                 /\ lastsave'.filepath \notin DOMAIN folder.files
      ]_vars

\* The step is a hook call that ran the stopping check with the metric there.
CheckRanWithMetric ==
    /\ cb'.calls = cb.calls + 1
    /\ HasMetric(cb'.trainer.callback_metrics, cb.es.monitor)
    /\ \/ cb'.hook = "on_validation_end" /\ ~cb'.trainer.running_sanity_check
       \/ cb'.hook = "on_train_epoch_end" /\ ~cb.es.based_on_eval_results

\* C17: a stopping check with the metric present takes the value v as an
\* improvement exactly when v + d < best_score in min mode and
\* v - d > best_score in max mode, d being the configured min_delta; then it
\* sets best_score to v and wait_count to 0, otherwise it adds one to
\* wait_count and keeps best_score.  So a callback stops no earlier than at
\* its (patience + 1)-th check, which is when a constant sequence stops it.
C17_ImprovementRule ==
    [][CheckRanWithMetric
       => LET v      == cb'.trainer.callback_metrics[cb.es.monitor]
              d      == cb.config.min_delta
              better == IF cb.es.mode = "min"
                        THEN torch_lt(Fin(v + d), cb.es.best_score)
                        ELSE torch_gt(Fin(v - d), cb.es.best_score)
          IN  /\ better => /\ cb'.es.best_score = Fin(v)
                           /\ cb'.es.wait_count = 0
              /\ ~better => /\ cb'.es.best_score = cb.es.best_score
                            /\ cb'.es.wait_count = cb.es.wait_count + 1
              /\ cb'.trainer.should_stop => cb'.calls >= cb.config.patience + 1
      ]_vars

\* In min mode without min_delta the callback stopped at its
\* (patience + 1)-th check, on a value equal to the best one.
C17_Witness ==
    /\ cb.es.mode = "min"
    /\ cb.config.min_delta = 0
    /\ cb.trainer.should_stop
    /\ cb.hook = "on_validation_end"
    /\ cb.calls = cb.config.patience + 1
    /\ cb.es.stopped_epoch = cb.config.patience
    /\ cb.es.wait_count = cb.config.patience
    /\ cb.es.best_score = Fin(cb.trainer.callback_metrics[cb.es.monitor])

\* C18: on_validation_end and on_validation_epoch_end, called while
\* trainer.running_sanity_check is true, leave the callback (wait_count,
\* best_score, stopped_epoch, based_on_eval_results) and trainer.should_stop
\* as they were and raise nothing, whatever the metrics snapshot holds.
C18_SanityCheckExcluded ==
    [][(/\ cb'.calls = cb.calls + 1
        /\ cb'.hook \in {"on_validation_end", "on_validation_epoch_end"}
        /\ cb'.trainer.running_sanity_check)
       => (/\ cb'.es = cb.es
           /\ cb'.trainer.should_stop = cb.trainer.should_stop
           /\ cb'.outcome = "return")]_vars

\* on_validation_end ran in a sanity check on a callback one check short of
\* its patience, with a value that is no improvement.
C18_Witness ==
    /\ cb.hook = "on_validation_end"
    /\ cb.trainer.running_sanity_check
    /\ cb.es.wait_count = cb.es.patience - 1
    /\ ~cb.trainer.should_stop
    /\ HasMetric(cb.trainer.callback_metrics, cb.es.monitor)
    /\ ~Improved(cb.es, cb.trainer.callback_metrics[cb.es.monitor])

\* The restore passes the checks that come before the mid-epoch test.
ReachesMidEpochTest ==
    /\ rpc = "restore"
    /\ PassesSchemaChecks(record)
    /\ record["epoch"] <= rt.max_epochs

\* global_step modulo num_training_batches / n_accum, times n_accum.
StepRemainder(global_step, t) ==
    (global_step * (IF t.accumulate_grad_batches = <<>> THEN 1
                    ELSE t.accumulate_grad_batches[1])) % t.num_training_batches

\* C19 as stated: a restore that gets to the test warns exactly when
\* num_training_batches is not 0 and the restored global_step leaves a
\* nonzero remainder modulo the expected steps of an epoch.
C19_MidEpochWarning_Original ==
    [][ReachesMidEpochTest
       => (warned' <=> (/\ rt.num_training_batches # 0
                        /\ StepRemainder(record["global_step"], rt) # 0))]_vars

\* C19: a restore that gets to the test warns exactly when
\* num_training_batches is not 0 and the restored global_step leaves a
\* remainder greater than 1 modulo num_training_batches / n_accum; the
\* trainer it leaves and the exception it raises are those of the same
\* restore on a trainer that cannot warn (num_training_batches = 0).
C19_MidEpochWarning ==
    [][(ReachesMidEpochTest
        => (warned' <=>
               (/\ rt.num_training_batches # 0
                /\ StepRemainder(record["global_step"], rt) >
                       (IF rt.accumulate_grad_batches = <<>> THEN 1
                        ELSE rt.accumulate_grad_batches[1]))))
       /\ (rpc = "restore"
           => LET quiet == restore_training_state(
                               [rt EXCEPT !.num_training_batches = 0], record)
              IN  /\ ~quiet.warned
                  /\ raised' = quiet.raised
                  /\ rt' = [quiet.trainer EXCEPT
                                !.num_training_batches = rt.num_training_batches])
      ]_vars

\* A restore warned and restored the optimizer's state.
C19_Witness ==
    /\ rpc = "restored"
    /\ warned
    /\ rt.accumulate_grad_batches = <<2>>
    /\ rt.global_step = record["global_step"]
    /\ rt.optimizers = record["optimizer_states"]
    /\ rt.optimizers[1].step >= 1

\* C20: a restore_training_state that raises (KeyError, ValueError or
\* MisconfigurationException) leaves global_step, current_epoch, the callback
\* states and every optimizer and scheduler state as they were.
C20_FailedRestoreChangesNothing ==
    [][(rpc = "restore" /\ raised' # None)
       => (/\ rt'.global_step = rt.global_step
           /\ rt'.current_epoch = rt.current_epoch
           /\ rt'.callbacks = rt.callbacks
           /\ rt'.optimizers = rt.optimizers
           /\ rt'.lr_schedulers = rt.lr_schedulers)]_vars

\* Process r has called the collective (line 205) in its current evaluation
\* cycle: it is waiting in it, or it has returned from it.
CalledCollective(r) == r.pc = "collective" \/ r.entered

\* Process r is past lines 177-202 of the check of its current cycle.
PastLocalCheck(r) == r.pc \in {"collective", "returned"}

\* C21: with strict = false, two processes that are past the local part of
\* the stopping check of the same evaluation cycle have made the same number
\* of calls to the collective in that cycle (one each, or none each), so
\* neither waits in the collective for a peer that skipped it.
C21_SameCollectiveCalls ==
    \A p, q \in Procs :
        (/\ ~ranks[p].es.strict
         /\ ranks[p].epoch = ranks[q].epoch
         /\ PastLocalCheck(ranks[p])
         /\ PastLocalCheck(ranks[q]))
            => (CalledCollective(ranks[p]) <=> CalledCollective(ranks[q]))

\* Score a is worse than score b for a callback of this mode.
Worse(mode, a, b) == IF mode = "min" THEN torch_gt(a, b) ELSE torch_lt(a, b)

\* The infinity best_score starts at (line 106).
InitialScore(mode) == IF mode = "min" THEN torch_inf ELSE NegInf

\* C22: with a configured min_delta >= 0, no hook call makes best_score
\* worse (it never rises in min mode and never falls in max mode), and in
\* every state best_score is the infinity it started at or a value of the
\* monitored key that a hook was given.
C22_BestScoreNeverWorse ==
    /\ [](cb.config.min_delta >= 0
            => \/ cb.es.best_score = InitialScore(cb.es.mode)
               \/ \E v \in cb.observed : cb.es.best_score = Fin(v))
    /\ [][cb.config.min_delta >= 0
            => ~Worse(cb.es.mode, cb'.es.best_score, cb.es.best_score)]_vars

\* In max mode the last check was given a value worse than best_score and
\* kept best_score, a value seen earlier.
C22_Witness ==
    /\ cb.config.min_delta >= 0
    /\ cb.calls = MaxCalls
    /\ cb.hook = "on_validation_end"
    /\ ~cb.trainer.running_sanity_check
    /\ cb.es.wait_count >= 1
    /\ HasMetric(cb.trainer.callback_metrics, cb.es.monitor)
    /\ Worse(cb.es.mode, Fin(cb.trainer.callback_metrics[cb.es.monitor]), cb.es.best_score)
    /\ \E v \in cb.observed : cb.es.best_score = Fin(v)
    /\ cb.es.mode = "max"

====
